---- MODULE Spec2Model ----
(***************************************************************************)
(* MCPAgent.stream (mcp_use/agents/mcpagent.py): the stream orchestration  *)
(* and the interrupt-and-restart protocol that reloads the tool set while  *)
(* an agent run is in progress.                                            *)
(*                                                                         *)
(* The agent executor (LangChain's compiled agent graph) and the server    *)
(* manager's tool catalog are the environment.  The executor is modelled   *)
(* by what its astream(..., stream_mode="updates") delivers: one node      *)
(* update per chunk, each carrying only the messages that node produced.   *)
(* The generator is cut into actions at its suspension points (the pull of *)
(* the next chunk, each message of an update, the final yield).            *)
(***************************************************************************)
EXTENDS Integers, Sequences, FiniteSets, TLC

(* ----------------------------- bounds ---------------------------------- *)

\* tool invocations the model may issue during one session (call identifiers
\* are never reused)
MaxCallIds == 4

\* tool invocations carried by one assistant message
MaxCallsPerMsg == 2

\* stream calls made on one agent
MaxRuns == 2

\* updates in which the executor repeats a message it emitted before
MaxReemits == 1

(* ------------------------- program constants --------------------------- *)

max_restarts == 3

\* tool_call_id of a message that carries none (Python None)
NoId == 0

NoOutput == "<None>"

NoOutputGenerated == "No output generated"

\* self._system_message = None
NoSystemMessage == [present |-> FALSE, tools |-> {}, text |-> ""]

\* self._agent_executor = None
NoExecutor ==
    [built |-> FALSE, tools |-> {}, system_prompt |-> NoSystemMessage, run_limit |-> 0]

\* self._reasoning_plan = None
NoPlan == [kind |-> "none", query |-> "", tool_info |-> {}]

\* the text the model wrote for the plan: nothing is known of what it contains
ModelPlan == [kind |-> "model", query |-> "", tool_info |-> {}]

\* run has not returned
\* external_history=None, and an external history that is given
NoExternalHistory == [given |-> FALSE, messages |-> <<>>]
ExternalHistory(messages) == [given |-> TRUE, messages |-> messages]

\* max_steps=None
NoMaxSteps == 0

NoResult == "<no result>"

(* ----------------------------- domains --------------------------------- *)

\* the server manager's own management tools, always in its catalog
ManagementTools == {"srv"}

\* tools of the servers that can be connected or dropped during a session
ServerTools == {"add"}

\* the tool-name sets the server manager's catalog can expose
Catalogs == {ManagementTools \cup S : S \in SUBSET ServerTools}

\* tools the adapter creates when no server manager is used
AdapterTools == {"add"}

\* texts of an assistant message without tool invocations
Contents == {"", "a"}

Query == "q"

(* ----------------------------- messages -------------------------------- *)

HumanMessage(c) ==
    [type |-> "human", content |-> c, tool_calls |-> <<>>, tool_call_id |-> NoId]

AIMessage(c, calls) ==
    [type |-> "ai", content |-> c, tool_calls |-> calls, tool_call_id |-> NoId]

ToolMessage(id) ==
    [type |-> "tool", content |-> "obs", tool_calls |-> <<>>, tool_call_id |-> id]

Range(s) == {s[i] : i \in 1..Len(s)}

\* for msg in history_to_use: if isinstance(msg, HumanMessage | AIMessage)
RECURSIVE FilterHistory(_)
FilterHistory(h) ==
    IF h = <<>> THEN <<>>
    ELSE IF Head(h).type \in {"human", "ai"}
         THEN <<Head(h)>> \o FilterHistory(Tail(h))
         ELSE FilterHistory(Tail(h))

\* msg not in accumulated_messages (list membership, by message equality)
NotIn(msg, acc) == \A i \in 1..Len(acc) : acc[i] # msg

\* an accumulation without the membership test
RECURSIVE Accumulate_Always(_, _)
Accumulate_Always(acc, messages) ==
    IF messages = <<>> THEN acc
    ELSE Accumulate_Always(Append(acc, Head(messages)), Tail(messages))

\* a de-duplication keyed on the call identifier alone
RECURSIVE Accumulate_ByCallId(_, _)
Accumulate_ByCallId(acc, messages) ==
    IF messages = <<>> THEN acc
    ELSE LET msg == Head(messages)
             seen == \E i \in 1..Len(acc) : acc[i].tool_call_id = msg.tool_call_id
         IN  Accumulate_ByCallId(IF seen THEN acc ELSE Append(acc, msg), Tail(messages))

\* for msg in messages: if msg not in accumulated_messages: append
RECURSIVE Accumulate(_, _)
Accumulate(acc, messages) ==
    IF messages = <<>> THEN acc
    ELSE LET msg == Head(messages)
         IN  Accumulate(IF NotIn(msg, acc) THEN Append(acc, msg) ELSE acc, Tail(messages))

\* if node_output is not None and "messages" in node_output
HasMessages(node_output) == node_output # <<>>

\* hasattr(message, "tool_calls") and message.tool_calls
HasToolCalls(message) == Len(message.tool_calls) > 0

\* hasattr(message, "type") and message.type == "tool"
IsToolResult(message) == message.type = "tool"

\* isinstance(message, AIMessage) and not getattr(message, "tool_calls", None)
IsFinalAI(message) == message.type = "ai" /\ Len(message.tool_calls) = 0

\* the tool-update check sits inside the tool-result branch
SafeRestartPoint_AnyMessage(message) == TRUE

SafeRestartPoint(message) == IsToolResult(message)

\* a comparison that never reports a change
ToolsChanged_Never(current_tool_names, existing_tool_names) == FALSE

\* current_tool_names != existing_tool_names
ToolsChanged(current_tool_names, existing_tool_names) ==
    current_tool_names # existing_tool_names

\* while restart_count <= max_restarts
LoopContinues(rc) == rc <= max_restarts

\* restart_count += 1
NextRestartCount_Stuck(rc) == rc

NextRestartCount(rc) == rc + 1

\* if restart_count > max_restarts: warn; break
RestartsExhausted(rc) == rc > max_restarts

\* final_output or "No output generated" (an empty string is falsy)
Truthy(out) == out # NoOutput /\ out # ""

(* ------------------------------ state ---------------------------------- *)

VARIABLES
    \* constructor arguments of the agent (fixed after __init__)
    use_server_manager, memory_enabled, client, auto_initialize,
    max_steps,              \* self.max_steps
    \* agent (session) state
    initialized,            \* self._initialized
    agent_executor,         \* self._agent_executor: NoExecutor or the tools it was built with
    tools,                  \* names of self._tools (the loaded snapshot)
    system_message,         \* self._system_message: the tools it was generated from
    catalog,                \* names of self.server_manager.tools (the live catalog)
    conversation_history,   \* self._conversation_history
    runs,                   \* stream calls made so far
    \* arguments of the current stream call
    manage_connector, output_schema,
    schema_fields,          \* output_schema.model_fields of the call: how each field is declared
    structured_result,      \* what the formatting pass returned: the value of each field
    \* locals of the current stream call
    pc, initialized_here, final_output, steps_taken, restart_count, should_restart,
    accumulated_messages, pending_tool_calls,
    chunk, idx,             \* messages of the node update being processed, and the position in it
    \* the executor's running astream call
    ex_phase, ex_outstanding, next_id,
    model_calls,            \* model calls the executor has made in the current invocation
    \* what the caller and the executor have seen of the current call
    events,                 \* values yielded to the caller, in order
    raised,                 \* the call ended by raising
    astream_calls,          \* number of astream invocations
    inputs,                 \* messages handed to the latest astream invocation
    initial_messages,       \* the list accumulation started from
    emitted,                \* messages the executor's updates carried, in emission order
    \* what the environment has done so far in the session
    change_run,             \* the value of runs when the catalog last changed (-1: never)
    change_at,              \* Len(emitted) when it changed, -1 for a change between calls
    reemits,                \* updates in which the executor repeated an earlier message
    \* the public call in progress (or the last one made) and what it surfaced
    method,                 \* "stream" or "run"
    reasoning,              \* the call's reasoning argument
    reasoning_plan,         \* self._reasoning_plan
    plan_calls,             \* calls of _generate_reasoning_plan made by the call
    plan_failed,            \* the model call made for the plan raised
    printed,                \* what run has printed
    result,                 \* the value run returned
    stream_fails,           \* stream, called with run's arguments in run's initial state,
                            \* raises "MCP agent failed to initialize"
    \* what the agent keeps about its use
    tools_used_names,       \* self.tools_used_names: one entry per tool call tracked (the
                            \* call's identifier stands for the tool's name)
    telemetry,              \* the track_agent_execution records of the current call
    init_calls,             \* calls of initialize() made by the current call
    close_calls,            \* calls of close() made by the current call
    \* construction and remote mode
    ctor_args,              \* the arguments MCPAgent(...) was called with
    construction,           \* "pending" before the constructor runs, then "local",
                            \* "remote" or the ValueError it raised
    remote_calls,           \* calls made on self._remote_agent by the current call
    remote_items,           \* what the remote agent produces for the current call
    \* further arguments of the current call
    external_history,       \* the external_history argument
    max_steps_arg           \* the max_steps argument

config_vars == <<use_server_manager, memory_enabled, client, auto_initialize, max_steps>>

agent_vars == <<initialized, agent_executor, tools, system_message, catalog,
               conversation_history, runs>>

call_vars == <<manage_connector, output_schema, schema_fields, structured_result>>

local_vars == <<pc, initialized_here, final_output, steps_taken, restart_count, should_restart,
                accumulated_messages, pending_tool_calls, chunk, idx>>

executor_vars == <<ex_phase, ex_outstanding, next_id, model_calls>>

observer_vars == <<events, raised, astream_calls, inputs, initial_messages, emitted>>

scenario_vars == <<change_run, change_at, reemits>>

api_vars == <<method, reasoning, reasoning_plan, plan_calls, plan_failed, printed, result,
              stream_fails>>

session_vars == <<tools_used_names, telemetry, init_calls, close_calls>>

remote_vars == <<ctor_args, construction, remote_calls, remote_items>>

arg_vars == <<external_history, max_steps_arg>>

vars == <<config_vars, agent_vars, call_vars, local_vars, executor_vars, observer_vars,
          scenario_vars, api_vars, session_vars, remote_vars, arg_vars>>

(* ---------------------------- construction ----------------------------- *)

MaxConnectors == 1

\* the arguments of MCPAgent(...) that the constructor examines: whether llm,
\* client, server_manager and agent_id are given (not None), how many
\* connectors are given, and use_server_manager
ConstructorArgs ==
    [llm : BOOLEAN, client : BOOLEAN, connectors : 0..MaxConnectors,
     use_server_manager : BOOLEAN, server_manager : BOOLEAN, agent_id : BOOLEAN]

NoArgs ==
    [llm |-> FALSE, client |-> FALSE, connectors |-> 0, use_server_manager |-> FALSE,
     server_manager |-> FALSE, agent_id |-> FALSE]

\* a local agent built with a model, with the client or else one connector, and
\* with the server manager the constructor creates
LocalArgs ==
    [llm |-> TRUE, client |-> client, connectors |-> IF client THEN 0 ELSE 1,
     use_server_manager |-> use_server_manager, server_manager |-> FALSE,
     agent_id |-> FALSE]

\* a constructor that accepts an agent without any tool source
ConstructorOutcome_NoToolSourceCheck(args) ==
    IF args.agent_id THEN "remote"
    ELSE IF ~args.llm THEN "ValueError: llm is required for local execution"
    ELSE IF args.use_server_manager /\ ~args.server_manager /\ ~args.client
    THEN "ValueError: Client must be provided when using server manager"
    ELSE "local"

\* __init__: the remote branch returns first; then the three checks in order
ConstructorOutcome(args) ==
    IF args.agent_id THEN "remote"
    ELSE IF ~args.llm THEN "ValueError: llm is required for local execution"
    ELSE IF ~args.client /\ args.connectors = 0
    THEN "ValueError: Either client or connector must be provided"
    ELSE IF args.use_server_manager /\ ~args.server_manager /\ ~args.client
    THEN "ValueError: Client must be provided when using server manager"
    ELSE "local"

\* the fields of an agent on which no call has been made
FreshFields ==
    /\ initialized = FALSE
    /\ agent_executor = NoExecutor
    /\ tools = {}
    /\ system_message = NoSystemMessage
    /\ catalog = ManagementTools
    /\ conversation_history = <<>>
    /\ runs = 0
    /\ manage_connector = TRUE
    /\ output_schema = FALSE
    /\ schema_fields = <<>>
    /\ structured_result = <<>>
    /\ pc = "idle"
    /\ initialized_here = FALSE
    /\ final_output = NoOutput
    /\ steps_taken = 0
    /\ restart_count = 0
    /\ should_restart = FALSE
    /\ accumulated_messages = <<>>
    /\ pending_tool_calls = {}
    /\ chunk = <<>>
    /\ idx = 0
    /\ ex_phase = "end"
    /\ ex_outstanding = {}
    /\ next_id = 0
    /\ model_calls = 0
    /\ events = <<>>
    /\ raised = FALSE
    /\ astream_calls = 0
    /\ inputs = <<>>
    /\ initial_messages = <<>>
    /\ emitted = <<>>
    /\ change_run = -1
    /\ change_at = 0
    /\ reemits = 0
    /\ method = "stream"
    /\ reasoning = FALSE
    /\ reasoning_plan = NoPlan
    /\ plan_calls = 0
    /\ plan_failed = FALSE
    /\ printed = <<>>
    /\ result = NoResult
    /\ stream_fails = FALSE
    /\ tools_used_names = <<>>
    /\ telemetry = <<>>
    /\ init_calls = 0
    /\ close_calls = 0
    /\ remote_calls = 0
    /\ remote_items = <<>>
    /\ external_history = NoExternalHistory
    /\ max_steps_arg = NoMaxSteps

Init ==
    /\ use_server_manager \in BOOLEAN
    /\ memory_enabled \in BOOLEAN
    /\ client \in BOOLEAN
    \* "Client must be provided when using server manager"
    /\ use_server_manager => client
    /\ auto_initialize \in BOOLEAN
    \* server-manager agents are built with the default auto_initialize=False
    /\ use_server_manager => ~auto_initialize
    \* a step limit that the runs of the agent do not reach
    /\ max_steps = MaxCallIds + 1
    /\ FreshFields
    /\ ctor_args = LocalArgs
    /\ construction = "local"

(* ------------------------ initialize and close ------------------------- *)

\* initialize(): self._tools, then self._agent_executor = self._create_agent()
InitializedTools == IF use_server_manager THEN catalog ELSE AdapterTools

\* a prompt that is regenerated from the snapshot loaded before the update
CreateSystemMessageFromTools_Stale(loaded) ==
    [present |-> TRUE, tools |-> tools, text |-> ""]

\* _create_system_message_from_tools(tools): create_system_message(tools=tools, ...)
CreateSystemMessageFromTools(loaded) ==
    [present |-> TRUE, tools |-> loaded, text |-> ""]

\* an executor that keeps the tools of the snapshot loaded before the update
CreateAgent_StaleTools(loaded, message) ==
    [built |-> TRUE, tools |-> tools, system_prompt |-> message, run_limit |-> max_steps]

\* _create_agent(): create_agent(tools=self._tools, system_prompt=system_content),
\* system_content being self._system_message.content (a default without one)
CreateAgent(loaded, message) ==
    [built |-> TRUE, tools |-> loaded, system_prompt |-> message, run_limit |-> max_steps]

\* a fallback plan that leaves the tool listing out
GenerateReasoningPlan_NoListing(query, available_tools, model_ok) ==
    IF model_ok THEN ModelPlan
    ELSE [kind |-> "fallback", query |-> query, tool_info |-> {}]

\* _generate_reasoning_plan(query) once the agent is initialized: the model's
\* plan, or in the except branch the static plan with "Query: {query}" and
\* "Available Tools: {tool_info}"
GenerateReasoningPlan(query, available_tools, model_ok) ==
    IF model_ok THEN ModelPlan
    ELSE [kind |-> "fallback", query |-> query, tool_info |-> available_tools]

\* get_reasoning_plan(): return self._reasoning_plan
get_reasoning_plan == reasoning_plan

\* an append that ignores the memory switch
AddToHistory_Always(history, message) == Append(history, message)

\* add_to_history(message): appends only when memory is enabled
AddToHistory(history, message) ==
    IF memory_enabled THEN Append(history, message) ELSE history

\* close(): self._agent_executor = None; self._tools = []; self._initialized = False
Close ==
    /\ agent_executor' = NoExecutor
    /\ tools' = {}
    /\ initialized' = FALSE
    /\ UNCHANGED system_message

\* except Exception: if initialized_here and manage_connector: await self.close()
ExceptCloses(ih, mc) == ih /\ mc

\* a finally block that never closes
FinallyCloses_Never(ih, mc) == FALSE

\* finally: if manage_connector and not self.client and initialized_here:
\*              await self.close()
FinallyCloses(ih, mc) == mc /\ ~client /\ ih

\* except Exception: close() if initialized_here and manage_connector; raise
\* finally: close() if manage_connector and not self.client and initialized_here
Raise(ih, mc) ==
    /\ raised' = TRUE
    /\ pc' = "done"
    /\ close_calls' = (IF ExceptCloses(ih, mc) THEN 1 ELSE 0) +
                      (IF FinallyCloses(ih, mc) THEN 1 ELSE 0)
    /\ IF ExceptCloses(ih, mc) \/ FinallyCloses(ih, mc)
       THEN Close
       ELSE UNCHANGED <<initialized, agent_executor, tools, system_message>>

\* await agent.initialize() called by the user between runs
UserInitialize ==
    /\ pc \in {"idle", "done"}
    /\ runs < MaxRuns
    /\ ~initialized
    /\ initialized' = TRUE
    /\ tools' = InitializedTools
    /\ system_message' = CreateSystemMessageFromTools(InitializedTools)
    /\ agent_executor' = CreateAgent(InitializedTools,
                                     CreateSystemMessageFromTools(InitializedTools))
    /\ UNCHANGED <<config_vars, remote_vars, arg_vars, scenario_vars, api_vars, session_vars, catalog, conversation_history, runs, call_vars, local_vars,
                   executor_vars, observer_vars>>

\* the server manager's catalog changes (a server is connected or dropped):
\* between two calls, while the executor calls the model or runs tools, or while
\* the generator is suspended at the yield of a pair
ToolsChange ==
    /\ use_server_manager
    /\ \/ pc \in {"idle", "done"} /\ runs < MaxRuns
       \/ pc = "streaming" /\ ex_phase \in {"model", "tools"}
       \/ pc = "messages" /\ idx > 1
    /\ \E new_catalog \in Catalogs :
        /\ new_catalog # catalog
        /\ catalog' = new_catalog
    /\ UNCHANGED <<config_vars, remote_vars, arg_vars, scenario_vars, api_vars, session_vars, initialized, agent_executor, tools, system_message,
                   conversation_history, runs, call_vars, local_vars, executor_vars,
                   observer_vars>>

(* ------------------------------- stream -------------------------------- *)

\* async for chunk in self._agent_executor.astream(inputs, stream_mode="updates", ...)
InvokeExecutor(acc, calls) ==
    /\ should_restart' = FALSE
    /\ inputs' = acc
    /\ astream_calls' = calls + 1
    /\ ex_phase' = "hook"
    /\ ex_outstanding' = {}
    /\ model_calls' = 0
    /\ pc' = "streaming"

\* a run that leaves stream's own tracking switched on
TrackExecution_Always(meth) == TRUE

\* stream's track_execution argument: True by default, False when run calls it
TrackExecution(meth) == meth = "stream"

\* finally of stream: if track_execution: self.telemetry.track_agent_execution(
\* execution_method="stream", success=success, ...)
StreamTelemetry(track_execution, success) ==
    IF track_execution
    THEN <<[execution_method |-> "stream", success |-> success]>>
    ELSE <<>>

\* finally of run: self.telemetry.track_agent_execution(execution_method="run", ...)
RunTelemetry(success) == <<[execution_method |-> "run", success |-> success]>>

\* the records emitted when a call made through meth ends: by the stream it
\* runs, then by run itself
CallTelemetry(meth, success) ==
    StreamTelemetry(TrackExecution(meth), success) \o
    (IF meth = "run" THEN RunTelemetry(success) ELSE <<>>)

\* a stream that initializes every agent it finds uninitialized
NeedsInit_Always(mc) == ~initialized

\* if manage_connector and not self._initialized: ...
\* elif not self._initialized and self.auto_initialize: ...
NeedsInit(mc) == (mc /\ ~initialized) \/ (~initialized /\ auto_initialize)

\* a plan generation that initializes the agent whatever its state
PlanNeedsInit_Always(is_initialized) == TRUE

\* _generate_reasoning_plan: if not self._initialized: await self.initialize()
PlanNeedsInit(is_initialized) == ~is_initialized

\* a stream that always builds its input from the internal history
HistoryToUse_Internal(external) == conversation_history

\* history_to_use = external_history if external_history is not None
\*                  else self._conversation_history
HistoryToUse(external) ==
    IF external.given THEN external.messages ELSE conversation_history

PlanEvent(plan) == [kind |-> "plan", id |-> NoId, value |-> plan]

\* stream(), steps 1b and 2 and the head of the loop: the tool check before
\* execution, the inputs, the first astream invocation
StartExecution(tools1, message1, exec1) ==
    LET changed == use_server_manager /\ ToolsChanged(catalog, tools1)
        tools2 == IF changed THEN catalog ELSE tools1
        message2 == IF changed THEN CreateSystemMessageFromTools(tools2) ELSE message1
        exec2 == IF changed THEN CreateAgent(tools2, message2) ELSE exec1
        start == FilterHistory(HistoryToUse(external_history')) \o <<HumanMessage(Query)>>
    IN
    /\ tools' = tools2
    /\ system_message' = message2
    /\ agent_executor' = exec2
    /\ accumulated_messages' = start
    /\ initial_messages' = start
    /\ IF LoopContinues(0)
       THEN InvokeExecutor(start, 0)
       ELSE /\ pc' = "finish"
            /\ should_restart' = FALSE
            /\ inputs' = <<>>
            /\ astream_calls' = 0
            /\ UNCHANGED <<ex_phase, ex_outstanding, model_calls>>

\* stream(), called with manage_connector=mc and reasoning=r: from its first
\* statement to the yield of the plan or to the first astream invocation.
\* calls0 is the number of plans the caller has generated already, inits0 the
\* number of initialize() calls it has made.
StreamBody(mc, r, calls0, inits0) ==
    /\ manage_connector' = mc
    /\ output_schema' = FALSE
    /\ schema_fields' = <<>>
    /\ structured_result' = <<>>
    /\ final_output' = NoOutput
    /\ steps_taken' = 0
    /\ restart_count' = 0
    /\ pending_tool_calls' = {}
    /\ chunk' = <<>>
    /\ idx' = 0
    /\ emitted' = <<>>
    /\ LET needs_init == NeedsInit(mc)
           tools1 == IF needs_init THEN InitializedTools ELSE tools
           message1 == IF needs_init THEN CreateSystemMessageFromTools(tools1)
                       ELSE system_message
           exec1 == IF needs_init THEN CreateAgent(tools1, message1) ELSE agent_executor
       IN
       \E init_ok \in (IF needs_init THEN BOOLEAN ELSE {TRUE}) :
          IF ~init_ok \/ ~exec1.built
          THEN \* initialize() raises (initialized_here is still False), or
               \* raise RuntimeError("MCP agent failed to initialize")
               /\ initialized_here' = FALSE
               /\ Raise(FALSE, mc)
               /\ telemetry' = CallTelemetry(method', FALSE)
               /\ init_calls' = inits0 + (IF needs_init THEN 1 ELSE 0)
               /\ should_restart' = FALSE
               /\ accumulated_messages' = <<>>
               /\ initial_messages' = <<>>
               /\ inputs' = <<>>
               /\ astream_calls' = 0
               /\ events' = <<>>
               /\ plan_calls' = calls0
               /\ plan_failed' = IF calls0 = 0 THEN FALSE ELSE plan_failed
               /\ UNCHANGED <<ex_phase, ex_outstanding, model_calls, reasoning_plan>>
          ELSE /\ initialized_here' = needs_init
               /\ telemetry' = <<>>
               /\ close_calls' = 0
               /\ initialized' = TRUE
               /\ raised' = FALSE
               /\ IF r
                  THEN \* plan = await self._generate_reasoning_plan(query); yield plan
                       \E model_ok \in BOOLEAN :
                          \E plan \in {GenerateReasoningPlan(Query, tools1, model_ok)} :
                             /\ reasoning_plan' = plan
                             /\ plan_calls' = calls0 + 1
                             /\ init_calls' =
                                   inits0 + (IF needs_init THEN 1 ELSE 0) +
                                   (IF PlanNeedsInit(needs_init \/ initialized)
                                    THEN 1 ELSE 0)
                             /\ plan_failed' = (~model_ok \/ (calls0 > 0 /\ plan_failed))
                             /\ events' = <<PlanEvent(plan)>>
                             /\ pc' = "plan_yielded"
                             /\ tools' = tools1
                             /\ system_message' = message1
                             /\ agent_executor' = exec1
                             /\ should_restart' = FALSE
                             /\ accumulated_messages' = <<>>
                             /\ initial_messages' = <<>>
                             /\ inputs' = <<>>
                             /\ astream_calls' = 0
                             /\ UNCHANGED <<ex_phase, ex_outstanding, model_calls>>
                  ELSE \* self._reasoning_plan = None
                       /\ reasoning_plan' = NoPlan
                       /\ plan_calls' = calls0
                       /\ init_calls' = inits0 + (IF needs_init THEN 1 ELSE 0)
                       /\ events' = <<>>
                       /\ plan_failed' = IF calls0 = 0 THEN FALSE ELSE plan_failed
                       /\ StartExecution(tools1, message1, exec1)
    /\ UNCHANGED <<config_vars, remote_vars, scenario_vars, tools_used_names, catalog, conversation_history,
                   next_id>>

\* the caller calls stream(query, max_steps=steps, manage_connector=mc,
\* external_history=history, reasoning=r)
StreamCall(mc, r, history, steps) ==
    /\ pc \in {"idle", "done"}
    /\ runs < MaxRuns
    /\ runs' = runs + 1
    /\ method' = "stream"
    /\ reasoning' = r
    /\ printed' = <<>>
    /\ result' = NoResult
    /\ stream_fails' = FALSE
    /\ external_history' = history
    /\ max_steps_arg' = steps
    /\ StreamBody(mc, r, 0, 0)

\* the caller calls stream(query, manage_connector=mc, reasoning=r)
StreamBegin(mc, r) == StreamCall(mc, r, NoExternalHistory, NoMaxSteps)

\* the caller resumes the generator suspended at the yield of the plan
StreamResume ==
    /\ pc = "plan_yielded"
    /\ UNCHANGED arg_vars
    /\ StartExecution(tools, system_message, agent_executor)
    /\ UNCHANGED <<config_vars, remote_vars, scenario_vars, api_vars, session_vars, initialized, catalog,
                   conversation_history, runs, call_vars, initialized_here, final_output,
                   steps_taken, restart_count, pending_tool_calls, chunk, idx, next_id,
                   events, raised, emitted>>

\* stream, called in the current state with manage_connector=mc, raises
\* RuntimeError("MCP agent failed to initialize"): it does not initialize and
\* there is no executor
StreamFailsToInitialize(mc) ==
    /\ ~((mc /\ ~initialized) \/ (~initialized /\ auto_initialize))
    /\ ~agent_executor.built

\* a run that passes its own reasoning argument on to stream
InnerReasoning_PassedOn(r) == r

\* generator = self.stream(..., reasoning=False): "Don't generate plan again in stream"
InnerReasoning(r) == FALSE

\* the caller calls run(query, manage_connector=mc, reasoning=r): the plan is
\* generated, stored and printed, or the stored plan is cleared
RunBegin(mc, r) ==
    /\ pc \in {"idle", "done"}
    /\ runs < MaxRuns
    /\ runs' = runs + 1
    /\ method' = "run"
    /\ reasoning' = r
    /\ result' = NoResult
    /\ stream_fails' = StreamFailsToInitialize(mc)
    /\ manage_connector' = mc
    /\ external_history' = NoExternalHistory
    /\ max_steps_arg' = NoMaxSteps
    /\ output_schema' = FALSE
    /\ schema_fields' = <<>>
    /\ structured_result' = <<>>
    /\ final_output' = NoOutput
    /\ steps_taken' = 0
    /\ restart_count' = 0
    /\ should_restart' = FALSE
    /\ accumulated_messages' = <<>>
    /\ pending_tool_calls' = {}
    /\ chunk' = <<>>
    /\ idx' = 0
    /\ initialized_here' = FALSE
    /\ events' = <<>>
    /\ astream_calls' = 0
    /\ inputs' = <<>>
    /\ initial_messages' = <<>>
    /\ emitted' = <<>>
    /\ telemetry' = <<>>
    /\ init_calls' = IF r /\ PlanNeedsInit(initialized) THEN 1 ELSE 0
    /\ close_calls' = 0
    /\ IF r
       THEN \* _generate_reasoning_plan: if not self._initialized: await self.initialize()
            LET needs_init == PlanNeedsInit(initialized)
                tools1 == IF needs_init THEN InitializedTools ELSE tools
                message1 == IF needs_init THEN CreateSystemMessageFromTools(tools1)
                            ELSE system_message
                exec1 == IF needs_init THEN CreateAgent(tools1, message1) ELSE agent_executor
            IN
            \E init_ok \in (IF needs_init THEN BOOLEAN ELSE {TRUE}) :
               IF ~init_ok
               THEN \* initialize() raises out of run, before stream is called
                    /\ raised' = TRUE
                    /\ pc' = "done"
                    /\ plan_calls' = 1
                    /\ plan_failed' = FALSE
                    /\ printed' = <<>>
                    /\ UNCHANGED <<initialized, tools, system_message, agent_executor,
                                   reasoning_plan>>
               ELSE \E model_ok \in BOOLEAN :
                       \E plan \in {GenerateReasoningPlan(Query, tools1, model_ok)} :
                          /\ initialized' = TRUE
                          /\ tools' = tools1
                          /\ system_message' = message1
                          /\ agent_executor' = exec1
                          /\ reasoning_plan' = plan
                          /\ printed' = <<plan>>
                          /\ plan_calls' = 1
                          /\ plan_failed' = ~model_ok
                          /\ raised' = FALSE
                          /\ pc' = "run_planned"
       ELSE \* self._reasoning_plan = None
            /\ reasoning_plan' = NoPlan
            /\ printed' = <<>>
            /\ plan_calls' = 0
            /\ plan_failed' = FALSE
            /\ raised' = FALSE
            /\ pc' = "run_planned"
            /\ UNCHANGED <<initialized, tools, system_message, agent_executor>>
    /\ UNCHANGED <<config_vars, remote_vars, scenario_vars, tools_used_names, catalog, conversation_history,
                   executor_vars>>

\* run creates the generator and _consume_and_return starts to iterate it
RunStream ==
    /\ pc = "run_planned"
    /\ UNCHANGED <<runs, method, reasoning, printed, result, stream_fails, arg_vars>>
    /\ \E r \in {InnerReasoning(reasoning)} : StreamBody(manage_connector, r, plan_calls, init_calls)

\* for node_name, node_output in chunk.items(): the update's messages are first
\* all accumulated, then processed one by one
ReceiveUpdate(node_output) ==
    /\ emitted' = emitted \o node_output
    /\ IF HasMessages(node_output)
       THEN /\ accumulated_messages' = Accumulate(accumulated_messages, node_output)
            /\ chunk' = node_output
            /\ idx' = 1
            /\ pc' = "messages"
       ELSE UNCHANGED <<accumulated_messages, chunk, idx, pc>>

\* the step-limit middleware's before-model node reports no state change (None)
ExecutorHookUpdate ==
    /\ pc = "streaming"
    /\ ex_phase = "hook"
    /\ model_calls < agent_executor.run_limit
    /\ ex_phase' = "model"
    /\ ReceiveUpdate(<<>>)
    /\ UNCHANGED <<config_vars, remote_vars, arg_vars, scenario_vars, api_vars, session_vars, agent_vars, call_vars, initialized_here, final_output,
                   steps_taken, restart_count, should_restart, pending_tool_calls,
                   ex_outstanding, next_id, model_calls, events, raised, astream_calls, inputs,
                   initial_messages>>

\* the model node emits an assistant message: k tool invocations with fresh call
\* identifiers, or none (the final answer)
ExecutorModelUpdate ==
    /\ pc = "streaming"
    /\ ex_phase = "model"
    /\ model_calls' = model_calls + 1
    /\ \E k \in 0..MaxCallsPerMsg :
        /\ next_id + k <= MaxCallIds
        /\ IF k = 0
           THEN \E c \in Contents :
                   /\ ReceiveUpdate(<<AIMessage(c, <<>>)>>)
                   /\ ex_phase' = "end"
                   /\ UNCHANGED <<ex_outstanding, next_id>>
           ELSE /\ \E node_output \in {<<AIMessage("", [i \in 1..k |-> next_id + i])>>} :
                      ReceiveUpdate(node_output)
                /\ ex_phase' = "tools"
                /\ ex_outstanding' = (next_id + 1)..(next_id + k)
                /\ next_id' = next_id + k
    /\ UNCHANGED <<config_vars, remote_vars, arg_vars, scenario_vars, api_vars, session_vars, agent_vars, call_vars, initialized_here, final_output,
                   steps_taken, restart_count, should_restart, pending_tool_calls,
                   events, raised, astream_calls, inputs, initial_messages>>

\* ascending sequence of a set of call identifiers
RECURSIVE SortedSeq(_)
SortedSeq(S) ==
    IF S = {} THEN <<>>
    ELSE LET m == CHOOSE x \in S : \A y \in S : x <= y
         IN  <<m>> \o SortedSeq(S \ {m})

\* the tools node reports the results of all outstanding invocations in one update
ExecutorToolsUpdateAll ==
    /\ pc = "streaming"
    /\ ex_phase = "tools"
    /\ \E ids \in {SortedSeq(ex_outstanding)} :
          \E node_output \in {[i \in 1..Len(ids) |-> ToolMessage(ids[i])]} :
             ReceiveUpdate(node_output)
    /\ ex_outstanding' = {}
    /\ ex_phase' = "hook"
    /\ UNCHANGED <<config_vars, remote_vars, arg_vars, scenario_vars, api_vars, session_vars, agent_vars, call_vars, initialized_here, final_output,
                   steps_taken, restart_count, should_restart, pending_tool_calls,
                   next_id, model_calls, events, raised, astream_calls, inputs,
                   initial_messages>>

\* the tools node reports one invocation's result in an update of its own
\* (results in the order of the invocations)
ExecutorToolsUpdateOne ==
    /\ pc = "streaming"
    /\ ex_phase = "tools"
    /\ \E id \in {SortedSeq(ex_outstanding)[1]} :
        /\ ReceiveUpdate(<<ToolMessage(id)>>)
        /\ ex_outstanding' = ex_outstanding \ {id}
        /\ ex_phase' = IF ex_outstanding = {id} THEN "hook" ELSE "tools"
    /\ UNCHANGED <<config_vars, remote_vars, arg_vars, scenario_vars, api_vars, session_vars, agent_vars, call_vars, initialized_here, final_output,
                   steps_taken, restart_count, should_restart, pending_tool_calls,
                   next_id, model_calls, events, raised, astream_calls, inputs,
                   initial_messages>>

\* the astream iterator is exhausted
ExecutorStreamEnd ==
    /\ pc = "streaming"
    /\ ex_phase = "end"
    /\ pc' = "after_stream"
    /\ UNCHANGED <<config_vars, remote_vars, arg_vars, scenario_vars, api_vars, session_vars, agent_vars, call_vars, initialized_here, final_output,
                   steps_taken, restart_count, should_restart, accumulated_messages,
                   pending_tool_calls, chunk, idx, executor_vars, observer_vars>>

\* the executor raises (a model call or a tool call fails): except and finally
\* of stream
ExecutorRaises ==
    /\ pc = "streaming"
    /\ ex_phase \in {"model", "tools"}
    /\ Raise(initialized_here, manage_connector)
    /\ telemetry' = telemetry \o CallTelemetry(method, FALSE)
    /\ UNCHANGED <<config_vars, remote_vars, arg_vars, scenario_vars, api_vars, tools_used_names, init_calls, catalog, conversation_history, runs, call_vars,
                   initialized_here, final_output, steps_taken, restart_count, should_restart,
                   accumulated_messages, pending_tool_calls, chunk, idx, executor_vars,
                   events, astream_calls, inputs, initial_messages, emitted>>

PairEvent(id) == [kind |-> "pair", id |-> id, value |-> "obs"]

FinalEvent(value) == [kind |-> "final", id |-> NoId, value |-> value]

\* pending_tool_calls[tool_call_id] = action, for every tool_call carrying an id
Register(pending, message) ==
    IF HasToolCalls(message)
    THEN pending \cup ({message.tool_calls[i] : i \in 1..Len(message.tool_calls)} \ {NoId})
    ELSE pending

\* if tool_call_id and tool_call_id in pending_tool_calls
Resolves(pending, message) ==
    /\ IsToolResult(message)
    /\ message.tool_call_id # NoId
    /\ message.tool_call_id \in pending

\* a variant that flushes every pending invocation at a tool result
YieldedPairs_AllPending(pending, message) ==
    IF IsToolResult(message) THEN SortedSeq(pending) ELSE <<>>

\* action = pending_tool_calls.pop(tool_call_id); yield (action, str(observation))
YieldedPairs(pending, message) ==
    IF Resolves(pending, message) THEN <<message.tool_call_id>> ELSE <<>>

PendingAfter(pending, message) ==
    IF Resolves(pending, message) THEN pending \ {message.tool_call_id} ELSE pending

\* for message in messages: one iteration of the processing loop
ProcessMessage ==
    /\ pc = "messages"
    /\ LET message == chunk[idx]
           pending1 == Register(pending_tool_calls, message)
           yielded == YieldedPairs(pending1, message)
           restart == /\ SafeRestartPoint(message)
                      /\ use_server_manager
                      /\ ToolsChanged(catalog, tools)
       IN
       /\ steps_taken' = steps_taken + Len(message.tool_calls)
       /\ tools_used_names' = tools_used_names \o message.tool_calls
       /\ UNCHANGED <<telemetry, init_calls, close_calls>>
       /\ pending_tool_calls' = PendingAfter(pending1, message)
       /\ events' = events \o [i \in 1..Len(yielded) |-> PairEvent(yielded[i])]
       /\ IF restart
          THEN \* rebuild, set the flag, break out of the message, node and chunk loops
               /\ tools' = catalog
               /\ system_message' = CreateSystemMessageFromTools(catalog)
               /\ agent_executor' = CreateAgent(catalog, CreateSystemMessageFromTools(catalog))
               /\ should_restart' = TRUE
               /\ restart_count' = NextRestartCount(restart_count)
               /\ pc' = "after_stream"
               /\ chunk' = <<>>
               /\ idx' = 0
               /\ UNCHANGED final_output
          ELSE /\ final_output' = IF IsFinalAI(message) THEN message.content ELSE final_output
               /\ IF idx < Len(chunk)
                  THEN /\ idx' = idx + 1
                       /\ UNCHANGED <<chunk, pc>>
                  ELSE /\ idx' = 0
                       /\ chunk' = <<>>
                       /\ pc' = "streaming"
               /\ UNCHANGED <<tools, system_message, agent_executor, should_restart,
                               restart_count>>
    /\ UNCHANGED <<config_vars, remote_vars, arg_vars, scenario_vars, api_vars, initialized, catalog, conversation_history, runs, call_vars,
                   initialized_here, accumulated_messages, executor_vars, raised,
                   astream_calls, inputs, initial_messages, emitted>>

\* after the chunk loop: leave the while loop, or invoke the rebuilt executor
AfterStream ==
    /\ pc = "after_stream"
    /\ IF ~should_restart
       THEN /\ pc' = "finish"
            /\ UNCHANGED <<should_restart, inputs, astream_calls, ex_phase, ex_outstanding,
                           model_calls>>
       ELSE IF RestartsExhausted(restart_count)
       THEN /\ pc' = "finish"
            /\ UNCHANGED <<should_restart, inputs, astream_calls, ex_phase, ex_outstanding,
                           model_calls>>
       ELSE IF LoopContinues(restart_count)
       THEN InvokeExecutor(accumulated_messages, astream_calls)
       ELSE /\ pc' = "finish"
            /\ UNCHANGED <<should_restart, inputs, astream_calls, ex_phase, ex_outstanding,
                           model_calls>>
    /\ UNCHANGED <<config_vars, remote_vars, arg_vars, scenario_vars, api_vars, session_vars, agent_vars, call_vars, initialized_here, final_output,
                   steps_taken, restart_count, accumulated_messages, pending_tool_calls,
                   chunk, idx, next_id, events, raised, initial_messages, emitted>>

\* a final yield without the fallback to the sentinel
FinalValue_Raw(out) == out

\* final_output or "No output generated"
FinalValue(out) == IF Truthy(out) THEN out ELSE NoOutputGenerated

StructuredResult == "<structured>"

\* a structured branch that falls through to the plain yield
TerminalEvents_NoReturn(structured, out) ==
    IF structured
    THEN <<FinalEvent(StructuredResult), FinalEvent(FinalValue(out))>>
    ELSE <<FinalEvent(FinalValue(out))>>

\* a plain yield that is skipped when there is no final output
TerminalEvents_NoSentinel(structured, out) ==
    IF structured THEN <<FinalEvent(StructuredResult)>>
    ELSE IF Truthy(out) THEN <<FinalEvent(out)>> ELSE <<>>

\* yield structured_result; return  /  yield final_output or "No output generated"
TerminalEvents(structured, out) ==
    IF structured
    THEN <<FinalEvent(StructuredResult)>>
    ELSE <<FinalEvent(FinalValue(out))>>

(* ------------------------- structured output -------------------------- *)

MaxFields == 1

\* how a field of the schema is declared: `name: T` (no default; pydantic keeps
\* PydanticUndefined), `name: T | None = None`, `name: T = <value>`
Declarations == {"no_default", "default_none", "default_value"}

\* field_info.default
DefaultOf(declaration) ==
    CASE declaration = "no_default" -> "PydanticUndefined"
      [] declaration = "default_none" -> "None"
      [] declaration = "default_value" -> "value"

\* hasattr(field_info, "default"): FieldInfo sets the attribute for every field
HasDefaultAttribute(declaration) == TRUE

NoneValue == [type |-> "none", str |-> "", list |-> <<>>]
StrValue(text) == [type |-> "str", str |-> text, list |-> <<>>]
ListValue(items) == [type |-> "list", str |-> "", list |-> items]
\* the attribute is not set on the object the formatting pass returned
MissingValue == [type |-> "missing", str |-> "", list |-> <<>>]

FieldValues ==
    {MissingValue, NoneValue, StrValue(""), StrValue(" "), StrValue("a"),
     ListValue(<<>>), ListValue(<<"a">>)}

\* the schemas and the formatted results of up to MaxFields fields
SeqsUpTo(S, n) == UNION {[1..k -> S] : k \in 1..n}
Schemas == SeqsUpTo(Declarations, MaxFields)
FormattedResults(fields) == [1..Len(fields) -> FieldValues]

\* value.strip() on the strings drawn: a blank string strips to the empty one
Strip(text) == IF text = " " THEN "" ELSE text

\* getattr(structured_result, field_name, None)
GetAttr(value) == IF value = MissingValue THEN NoneValue ELSE value

\* required = not hasattr(field_info, "default") or field_info.default is None
FieldRequired(declaration) ==
    ~HasDefaultAttribute(declaration) \/ DefaultOf(declaration) = "None"

\* if value is None or (isinstance(value, str) and not value.strip()): raise
\* if isinstance(value, list) and len(value) == 0: raise
ValueRejected(read) ==
    \/ read.type = "none"
    \/ read.type = "str" /\ Strip(read.str) = ""
    \/ read.type = "list" /\ Len(read.list) = 0

\* the validation loop of _attempt_structured_output: TRUE when no ValueError
\* is raised
FieldsValidated(fields, formatted) ==
    \A i \in 1..Len(fields) :
       FieldRequired(fields[i]) => ~ValueRejected(GetAttr(formatted[i]))

\* _attempt_structured_output: the formatting call of the model may itself
\* raise; otherwise the validation loop decides
AttemptOutcomes(fields, formatted) ==
    {FALSE} \cup (IF FieldsValidated(fields, formatted) THEN {TRUE} ELSE {})

\* steps 4 to 6 of stream: history, structured output, the final yield.
\* The output_schema argument is first read here, so the call's choice of it
\* is drawn here and recorded.
Finish(schema, fields, formatted) ==
    /\ pc = "finish"
    /\ output_schema' = schema
    /\ schema_fields' = fields
    /\ structured_result' = formatted
    /\ LET history1 == AddToHistory(conversation_history, HumanMessage(Query))
           history2 == IF Truthy(final_output)
                       THEN AddToHistory(history1, AIMessage(final_output, <<>>))
                       ELSE history1
           structured == schema /\ Truthy(final_output)
       IN
       \E structured_ok \in (IF structured THEN AttemptOutcomes(fields, formatted)
                             ELSE {TRUE}) :
          IF structured /\ ~structured_ok
          THEN \* raise RuntimeError("Failed to generate structured output: ...")
               /\ conversation_history' = history2
               /\ Raise(initialized_here, manage_connector)
               /\ telemetry' = telemetry \o CallTelemetry(method, FALSE)
               /\ UNCHANGED events
          ELSE /\ conversation_history' =
                     IF structured
                     THEN AddToHistory(history2, AIMessage("Structured result", <<>>))
                     ELSE history2
               /\ events' = events \o TerminalEvents(structured, final_output)
               /\ pc' = "final_yielded"
               /\ UNCHANGED <<initialized, agent_executor, tools, system_message, raised,
                               telemetry, close_calls>>
    /\ UNCHANGED <<config_vars, remote_vars, arg_vars, scenario_vars, api_vars, tools_used_names, init_calls, catalog, runs, manage_connector, initialized_here,
                   final_output, steps_taken, restart_count, should_restart,
                   accumulated_messages, pending_tool_calls, chunk, idx, executor_vars,
                   astream_calls, inputs, initial_messages, emitted>>

\* _consume_and_return: steps_taken = len(self.tools_used_names)
ConsumeSteps == Len(tools_used_names)

\* a facade that returns the first event of the stream
ConsumeAndReturn_First(yielded) ==
    IF yielded = <<>> THEN "" ELSE yielded[1].value

\* _consume_and_return(generator): final_result = ""; the last item yielded wins
ConsumeAndReturn(yielded) ==
    IF yielded = <<>> THEN "" ELSE yielded[Len(yielded)].value

\* the generator is resumed after its final yield: the finally block; run then
\* returns what _consume_and_return kept
Finalize ==
    /\ pc = "final_yielded"
    /\ pc' = "done"
    /\ IF FinallyCloses(initialized_here, manage_connector)
       THEN Close
       ELSE UNCHANGED <<initialized, agent_executor, tools, system_message>>
    /\ close_calls' = IF FinallyCloses(initialized_here, manage_connector) THEN 1 ELSE 0
    /\ telemetry' = telemetry \o CallTelemetry(method, TRUE)
    /\ result' = IF method = "run" THEN ConsumeAndReturn(events) ELSE result
    /\ UNCHANGED <<config_vars, remote_vars, arg_vars, scenario_vars, tools_used_names, init_calls, method, reasoning, reasoning_plan, plan_calls,
                   plan_failed, printed, stream_fails, catalog, conversation_history, runs,
                   call_vars, initialized_here, final_output, steps_taken, restart_count,
                   should_restart, accumulated_messages, pending_tool_calls, chunk, idx,
                   executor_vars, observer_vars>>

(* --------------------------- specifications ---------------------------- *)

ExecutorStep ==
    \/ ExecutorHookUpdate
    \/ ExecutorModelUpdate
    \/ ExecutorToolsUpdateAll
    \/ ExecutorToolsUpdateOne
    \/ ExecutorStreamEnd

\* the manage_connector arguments the callers pass: a server-manager agent is
\* streamed with the default (True)
ManageConnectorArgs == IF use_server_manager THEN {TRUE} ELSE BOOLEAN

StreamStep ==
    \/ \E mc \in ManageConnectorArgs : StreamBegin(mc, FALSE)
    \/ ProcessMessage
    \/ AfterStream
    \/ \E schema \in BOOLEAN : Finish(schema, <<>>, <<>>)
    \/ Finalize

Next ==
    \/ UserInitialize
    \/ ToolsChange
    \/ StreamStep
    \/ ExecutorStep
    \/ ExecutorRaises

Spec == Init /\ [][Next]_vars

\* the steps a run takes once it has started: the generator's own steps and the
\* executor's deliveries (the caller keeps consuming the stream)
RunStep ==
    \/ ProcessMessage
    \/ AfterStream
    \/ \E schema \in BOOLEAN : Finish(schema, <<>>, <<>>)
    \/ Finalize
    \/ ExecutorStep

\* a server-manager agent (the only mode in which restarts occur)
FairInit ==
    /\ Init
    /\ use_server_manager
    /\ ~memory_enabled

FairSpec == FairInit /\ [][Next]_vars /\ WF_vars(RunStep)

\* the scenario of a single tool-set change: once in a run a server is connected
\* or dropped between two steps, while the generator awaits the model's next
\* message and no invocation is unresolved
ToolsChangeBetweenSteps ==
    /\ use_server_manager
    /\ pc = "streaming"
    /\ ex_phase \in {"hook", "model"}
    /\ pending_tool_calls = {}
    /\ ex_outstanding = {}
    /\ change_run # runs
    /\ \E new_catalog \in Catalogs :
        /\ new_catalog # catalog
        /\ catalog' = new_catalog
    /\ change_run' = runs
    /\ change_at' = Len(emitted)
    /\ UNCHANGED <<api_vars, session_vars, config_vars, remote_vars, arg_vars, initialized, agent_executor, tools, system_message,
                   conversation_history, runs, call_vars, local_vars, executor_vars,
                   observer_vars, reemits>>

\* between two calls a server is connected or dropped, so that the catalog
\* differs from the snapshot the initialized agent has loaded
ToolsChangeBetweenRuns ==
    /\ use_server_manager
    /\ pc \in {"idle", "done"}
    /\ runs < MaxRuns
    /\ initialized
    /\ change_run # runs
    /\ \E new_catalog \in Catalogs :
        /\ new_catalog # catalog
        /\ new_catalog # tools
        /\ catalog' = new_catalog
    /\ change_run' = runs
    /\ change_at' = -1
    /\ UNCHANGED <<api_vars, session_vars, config_vars, remote_vars, arg_vars, initialized, agent_executor, tools, system_message,
                   conversation_history, runs, call_vars, local_vars, executor_vars,
                   observer_vars, reemits>>

SingleChangeInit ==
    /\ Init
    /\ use_server_manager

SingleChangeNext ==
    \/ UserInitialize
    \/ ToolsChangeBetweenSteps
    \/ ToolsChangeBetweenRuns
    \/ StreamStep
    \/ ExecutorStep
    \/ ExecutorRaises

SingleChangeSpec == SingleChangeInit /\ [][SingleChangeNext]_vars

\* an executor whose update repeats the message it emitted last, before or after
\* a restart (a node that returns the end of the state it received)
ExecutorReemits ==
    /\ pc = "streaming"
    /\ ex_phase \in {"model", "tools"}
    /\ reemits < MaxReemits
    /\ reemits' = reemits + 1
    /\ \E i \in {Len(emitted)} \ {0} :
          \E node_output \in {<<emitted[i]>>} : ReceiveUpdate(node_output)
    /\ UNCHANGED <<api_vars, session_vars, config_vars, remote_vars, arg_vars, agent_vars, call_vars, initialized_here, final_output,
                   steps_taken, restart_count, should_restart, pending_tool_calls,
                   executor_vars, events, raised, astream_calls, inputs, initial_messages,
                   change_run, change_at>>

ReplayInit ==
    /\ Init
    /\ use_server_manager
    /\ ~memory_enabled

\* the steps of the agent's first stream call
FirstCallStep ==
    /\ StreamStep
    /\ runs' <= 1

ReplayNext ==
    \/ UserInitialize
    \/ ToolsChangeBetweenSteps
    \/ FirstCallStep
    \/ ExecutorStep
    \/ ExecutorReemits
    \/ ExecutorRaises

ReplaySpec == ReplayInit /\ [][ReplayNext]_vars

\* the two public entry points, with and without a reasoning plan, on an agent
\* without server manager; memory is enabled on the agent built from connectors
\* with the default auto_initialize=False
ApiInit ==
    /\ Init
    /\ ~use_server_manager
    /\ memory_enabled => (~client /\ ~auto_initialize)

ApiCall ==
    \E mc \in BOOLEAN, r \in BOOLEAN :
       \/ StreamBegin(mc, r)
       \/ RunBegin(mc, r)

ApiNext ==
    \/ UserInitialize
    \/ ApiCall
    \/ StreamResume
    \/ RunStream
    \/ ProcessMessage
    \/ AfterStream
    \/ \E schema \in BOOLEAN : Finish(schema, <<>>, <<>>)
    \/ Finalize
    \/ ExecutorStep
    \/ ExecutorRaises

ApiSpec == ApiInit /\ [][ApiNext]_vars

\* a caller that asks for structured output with each schema and each formatted
\* result, on an agent built with a client and no memory
StructuredInit ==
    /\ Init
    /\ ~use_server_manager
    /\ ~memory_enabled
    /\ client
    /\ ~auto_initialize

StructuredNext ==
    \/ StreamBegin(TRUE, FALSE)
    \/ ProcessMessage
    \/ AfterStream
    \/ \E fields \in Schemas :
          \E formatted \in FormattedResults(fields) : Finish(TRUE, fields, formatted)
    \/ Finalize
    \/ ExecutorStep

StructuredSpec == StructuredInit /\ [][StructuredNext]_vars

(* -------------------- construction and remote mode -------------------- *)

MaxRemoteItems == 2

\* what a remote agent returns or yields
RemoteValues == {"remote-1", "remote-2"}

\* the results RemoteAgent.run can return, and the item sequences
\* RemoteAgent.stream can yield
RemoteResults == [1..1 -> RemoteValues]
RemoteStreams == UNION {[1..k -> RemoteValues] : k \in 0..MaxRemoteItems}

\* before MCPAgent(...) is called: the fields have no value yet, the model
\* gives them the values a local construction would
ConstructInit ==
    /\ use_server_manager = FALSE
    /\ memory_enabled = FALSE
    /\ client = FALSE
    /\ auto_initialize = FALSE
    /\ max_steps = MaxCallIds + 1
    /\ FreshFields
    /\ ctor_args = NoArgs
    /\ construction = "pending"

\* MCPAgent(llm, client, connectors, use_server_manager, server_manager,
\* agent_id, memory_enabled, auto_initialize)
Construct(args) ==
    /\ construction = "pending"
    /\ ctor_args' = args
    /\ construction' = ConstructorOutcome(args)
    /\ IF ConstructorOutcome(args) = "local"
       THEN /\ use_server_manager' = args.use_server_manager
            /\ client' = args.client
            /\ memory_enabled' \in BOOLEAN
            /\ auto_initialize' \in BOOLEAN
            /\ UNCHANGED max_steps
       ELSE UNCHANGED config_vars
    /\ UNCHANGED <<agent_vars, call_vars, local_vars, executor_vars, observer_vars,
                   scenario_vars, api_vars, session_vars, remote_calls, remote_items,
                   arg_vars>>

\* if self._is_remote and self._remote_agent
Delegates(outcome) == outcome = "remote"

\* a facade that hands on the remote agent's items last first
NextRemoteItem_Reversed(items, yielded) == items[Len(items) - Len(yielded)]

\* async for item in self._remote_agent.stream(...): yield item
NextRemoteItem(items, yielded) == items[Len(yielded) + 1]

RemoteEvent(item) == [kind |-> "remote", id |-> NoId, value |-> item]

\* run or stream is called on a remote agent and calls the remote agent, which
\* will produce `items`
RemoteBegin(meth, r, items) ==
    /\ Delegates(construction)
    /\ pc \in {"idle", "done"}
    /\ runs < MaxRuns
    /\ runs' = runs + 1
    /\ method' = meth
    /\ reasoning' = r
    /\ result' = NoResult
    /\ events' = <<>>
    /\ raised' = FALSE
    /\ remote_calls' = 1
    /\ remote_items' = items
    /\ pc' = "remote"
    /\ UNCHANGED <<config_vars, ctor_args, construction, initialized, agent_executor, tools,
                   system_message, catalog, conversation_history, call_vars,
                   initialized_here, final_output, steps_taken, restart_count,
                   should_restart, accumulated_messages, pending_tool_calls, chunk, idx,
                   executor_vars, astream_calls, inputs, initial_messages, emitted,
                   scenario_vars, reasoning_plan, plan_calls, plan_failed, printed,
                   stream_fails, session_vars, arg_vars>>

\* result = await self._remote_agent.run(...); return result
RemoteRunBegin == \E r \in BOOLEAN, items \in RemoteResults : RemoteBegin("run", r, items)

RemoteStreamBegin ==
    \E r \in BOOLEAN, items \in RemoteStreams : RemoteBegin("stream", r, items)

RemoteRunReturn ==
    /\ pc = "remote"
    /\ method = "run"
    /\ result' = remote_items[1]
    /\ pc' = "done"
    /\ UNCHANGED <<config_vars, remote_vars, arg_vars, agent_vars, call_vars, initialized_here,
                   final_output, steps_taken, restart_count, should_restart,
                   accumulated_messages, pending_tool_calls, chunk, idx, executor_vars,
                   observer_vars, scenario_vars, method, reasoning, reasoning_plan,
                   plan_calls, plan_failed, printed, stream_fails, session_vars>>

\* the remote stream yields its next item and stream yields it
RemoteStreamItem ==
    /\ pc = "remote"
    /\ method = "stream"
    /\ Len(events) < Len(remote_items)
    /\ events' = Append(events, RemoteEvent(NextRemoteItem(remote_items, events)))
    /\ UNCHANGED <<config_vars, remote_vars, arg_vars, agent_vars, call_vars, local_vars,
                   executor_vars, raised, astream_calls, inputs, initial_messages, emitted,
                   scenario_vars, api_vars, session_vars>>

\* the remote stream is exhausted: return
RemoteStreamEnd ==
    /\ pc = "remote"
    /\ method = "stream"
    /\ Len(events) = Len(remote_items)
    /\ pc' = "done"
    /\ UNCHANGED <<config_vars, remote_vars, arg_vars, agent_vars, call_vars, initialized_here,
                   final_output, steps_taken, restart_count, should_restart,
                   accumulated_messages, pending_tool_calls, chunk, idx, executor_vars,
                   observer_vars, scenario_vars, api_vars, session_vars>>

\* the remote call raises: the error reaches the caller as it is
RemoteRaises ==
    /\ pc = "remote"
    /\ raised' = TRUE
    /\ pc' = "done"
    /\ UNCHANGED <<config_vars, remote_vars, arg_vars, agent_vars, call_vars, initialized_here,
                   final_output, steps_taken, restart_count, should_restart,
                   accumulated_messages, pending_tool_calls, chunk, idx, executor_vars,
                   events, astream_calls, inputs, initial_messages, emitted,
                   scenario_vars, api_vars, session_vars>>

ConstructNext ==
    \/ \E args \in ConstructorArgs : Construct(args)
    \/ RemoteRunBegin
    \/ RemoteStreamBegin
    \/ RemoteRunReturn
    \/ RemoteStreamItem
    \/ RemoteStreamEnd
    \/ RemoteRaises

ConstructSpec == ConstructInit /\ [][ConstructNext]_vars

(* -------------------------- external history -------------------------- *)

MaxHistory == 2

\* the identifier of a tool invocation made in an earlier session
ExternalCallId == MaxCallIds + 1

\* the messages a caller's history is made of: an earlier query, an assistant
\* message with a tool invocation and its tool result
HistoryMessages ==
    {HumanMessage("old"), AIMessage("", <<ExternalCallId>>), ToolMessage(ExternalCallId)}

\* the external_history arguments: None, or a list of up to MaxHistory messages
ExternalHistories ==
    {NoExternalHistory} \cup
    {ExternalHistory(h) : h \in UNION {[1..k -> HistoryMessages] : k \in 0..MaxHistory}}

\* an agent with memory, built with a client
HistoryInit ==
    /\ Init
    /\ ~use_server_manager
    /\ memory_enabled
    /\ client
    /\ ~auto_initialize

HistoryNext ==
    \/ \E history \in ExternalHistories : StreamCall(TRUE, FALSE, history, NoMaxSteps)
    \/ ProcessMessage
    \/ AfterStream
    \/ Finish(FALSE, <<>>, <<>>)
    \/ Finalize
    \/ ExecutorStep

HistorySpec == HistoryInit /\ [][HistoryNext]_vars

(* ----------------------------- abandonment ----------------------------- *)

\* the generator is suspended at a yield before the final one: after the plan,
\* or after a tool pair
SuspendedAtYield ==
    \/ pc = "plan_yielded"
    \/ pc = "streaming" /\ events # <<>> /\ events[Len(events)].kind = "pair"

\* the caller stops iterating and the generator is closed: GeneratorExit is
\* raised at the yield, `except Exception` does not catch it, finally runs
Abandon ==
    /\ method = "stream"
    /\ SuspendedAtYield
    /\ pc' = "done"
    /\ telemetry' = telemetry \o StreamTelemetry(TrackExecution(method), FALSE)
    /\ close_calls' = IF FinallyCloses(initialized_here, manage_connector) THEN 1 ELSE 0
    /\ IF FinallyCloses(initialized_here, manage_connector)
       THEN Close
       ELSE UNCHANGED <<initialized, agent_executor, tools, system_message>>
    /\ UNCHANGED <<config_vars, remote_vars, arg_vars, scenario_vars, api_vars,
                   tools_used_names, init_calls, catalog, conversation_history, runs,
                   call_vars, initialized_here, final_output, steps_taken, restart_count,
                   should_restart, accumulated_messages, pending_tool_calls, chunk, idx,
                   executor_vars, observer_vars>>

AbandonNext ==
    \/ UserInitialize
    \/ \E mc \in BOOLEAN, r \in BOOLEAN : StreamBegin(mc, r)
    \/ StreamResume
    \/ ProcessMessage
    \/ AfterStream
    \/ Finish(FALSE, <<>>, <<>>)
    \/ Finalize
    \/ ExecutorStep
    \/ ExecutorRaises
    \/ Abandon

AbandonSpec == ApiInit /\ [][AbandonNext]_vars

(* ------------------- plans of a server-manager agent ------------------ *)

\* a server-manager agent without memory
PlanCatalogInit ==
    /\ Init
    /\ use_server_manager
    /\ ~memory_enabled

\* streams with reasoning=True while servers are connected and dropped
PlanCatalogNext ==
    \/ UserInitialize
    \/ ToolsChange
    \/ StreamBegin(TRUE, TRUE)
    \/ StreamResume
    \/ ProcessMessage
    \/ AfterStream
    \/ Finish(FALSE, <<>>, <<>>)
    \/ Finalize
    \/ ExecutorStep

PlanCatalogSpec == PlanCatalogInit /\ [][PlanCatalogNext]_vars

(* ------------------------------ step limit ----------------------------- *)

MaxStepLimit == 2

\* the text of the message with which the step-limit middleware ends a run
LimitExceeded == "Model call limits exceeded"

\* ModelCallLimitMiddleware(run_limit=self.max_steps): once the executor has
\* made run_limit model calls in an invocation, the before-model node ends the
\* invocation with a message that says so
ExecutorLimitReached ==
    /\ pc = "streaming"
    /\ ex_phase = "hook"
    /\ model_calls >= agent_executor.run_limit
    /\ ReceiveUpdate(<<AIMessage(LimitExceeded, <<>>)>>)
    /\ ex_phase' = "end"
    /\ UNCHANGED <<config_vars, remote_vars, arg_vars, scenario_vars, api_vars,
                   session_vars, agent_vars, call_vars, initialized_here, final_output,
                   steps_taken, restart_count, should_restart, pending_tool_calls,
                   ex_outstanding, next_id, model_calls, events, raised, astream_calls,
                   inputs, initial_messages>>

\* an agent built with a client and max_steps between 1 and MaxStepLimit
StepsInit ==
    /\ use_server_manager = FALSE
    /\ memory_enabled = FALSE
    /\ client = TRUE
    /\ auto_initialize = FALSE
    /\ max_steps \in 1..MaxStepLimit
    /\ FreshFields
    /\ ctor_args = LocalArgs
    /\ construction = "local"

\* streams called without max_steps and with max_steps between 1 and MaxStepLimit
StepsNext ==
    \/ \E steps \in {NoMaxSteps} \cup 1..MaxStepLimit :
          StreamCall(TRUE, FALSE, NoExternalHistory, steps)
    \/ ProcessMessage
    \/ AfterStream
    \/ Finish(FALSE, <<>>, <<>>)
    \/ Finalize
    \/ ExecutorStep
    \/ ExecutorLimitReached

StepsSpec == StepsInit /\ [][StepsNext]_vars

(* --------------------------- set_system_message ------------------------ *)

\* the texts the user sets as system message
UserMessages == {"m1", "m2"}

\* the tool sets the servers of a connectors-only agent can expose: none, or
\* the tools of the adapter
LoadedToolSets == {{}, AdapterTools}

\* SystemMessage(content=message): a prompt written by the user, with no tool
\* listing generated into it
UserSystemMessage(message) == [present |-> TRUE, tools |-> {}, text |-> message]

\* await agent.initialize() called by the user on an agent whose servers expose
\* the tools `loaded`
UserInitializeWith(loaded) ==
    /\ pc \in {"idle", "done"}
    /\ ~initialized
    /\ initialized' = TRUE
    /\ tools' = loaded
    /\ system_message' = CreateSystemMessageFromTools(loaded)
    /\ agent_executor' = CreateAgent(loaded, CreateSystemMessageFromTools(loaded))
    /\ UNCHANGED <<config_vars, remote_vars, arg_vars, scenario_vars, api_vars,
                   session_vars, catalog, conversation_history, runs, call_vars,
                   local_vars, executor_vars, observer_vars>>

\* set_system_message(message), called between two calls
SetSystemMessage(message) ==
    /\ pc \in {"idle", "done"}
    /\ system_message' = UserSystemMessage(message)
    /\ system_message' # system_message
    /\ IF initialized /\ tools # {}
       THEN \* self._agent_executor = self._create_agent()
            agent_executor' = CreateAgent(tools, UserSystemMessage(message))
       ELSE UNCHANGED agent_executor
    /\ UNCHANGED <<config_vars, remote_vars, arg_vars, scenario_vars, api_vars,
                   session_vars, initialized, tools, catalog, conversation_history, runs,
                   call_vars, local_vars, executor_vars, observer_vars>>

\* a connectors-only agent without memory that the user initializes
MessageInit ==
    /\ Init
    /\ ~use_server_manager
    /\ ~memory_enabled
    /\ ~client
    /\ ~auto_initialize

\* the user initializes the agent, sets system messages and streams on the
\* initialized agent without handing over the connector lifecycle
MessageNext ==
    \/ \E loaded \in LoadedToolSets : UserInitializeWith(loaded)
    \/ \E message \in UserMessages : SetSystemMessage(message)
    \/ initialized /\ StreamBegin(FALSE, FALSE)
    \/ ProcessMessage
    \/ AfterStream
    \/ Finish(FALSE, <<>>, <<>>)
    \/ Finalize
    \/ ExecutorStep

MessageSpec == MessageInit /\ [][MessageNext]_vars

(* ------------------------------ properties ----------------------------- *)

IsPrefix(s, t) == Len(s) <= Len(t) /\ \A i \in 1..Len(s) : s[i] = t[i]

InRun == pc \notin {"idle", "done"}

\* call identifiers of the tool invocations carried by the messages of a list
InvokedIds(msgs) ==
    UNION {Range(msgs[i].tool_calls) : i \in 1..Len(msgs)}

\* call identifiers of the tool-result messages of a list
ResultIds(msgs) ==
    {msgs[i].tool_call_id : i \in {j \in 1..Len(msgs) : msgs[j].type = "tool"}}

FinalPositions == {i \in 1..Len(events) : events[i].kind = "final"}

PairPositions == {i \in 1..Len(events) : events[i].kind = "pair"}

\* the run has yielded its terminal value or returned
Returned == pc \in {"final_yielded", "done"} /\ ~raised

\* C1: whenever a tool-set change triggers an interrupt-and-restart, every tool
\* invocation emitted so far in the run has its tool-result message in
\* accumulated_messages (the list replayed to the rebuilt executor).
C1_RestartLeavesNoUnresolvedCall ==
    should_restart => InvokedIds(emitted) \subseteq ResultIds(accumulated_messages)

\* C2: a restart (flag set, counter incremented, executor rebuilt inside the
\* loop) happens only in the step that processes a tool-result message, after
\* that message has been resolved; a catalog change by itself, and the processing
\* of any other message, leave the loaded tools, the executor, the counter and
\* the flag untouched.
C2_RestartOnlyAtToolResult ==
    [][ /\ (InRun /\ (restart_count' # restart_count \/ (should_restart' /\ ~should_restart)))
           => /\ pc = "messages"
              /\ chunk[idx].type = "tool"
              /\ chunk[idx].tool_call_id \notin pending_tool_calls'
        /\ (catalog' # catalog)
           => UNCHANGED <<tools, agent_executor, restart_count, should_restart, pc>>
        /\ (pc = "messages" /\ chunk[idx].type # "tool")
           => UNCHANGED <<tools, agent_executor, restart_count, should_restart>>
      ]_vars

C2_Witness ==
    /\ should_restart
    /\ restart_count = 1
    /\ pc = "after_stream"
    /\ emitted[Len(emitted)].type = "tool"

\* C3: in a run that ended with a terminal value, no call is still pending whose
\* tool-result message the executor emitted: every emitted result with a
\* pending call identifier resolved that call and yielded its pair.
C3_NoOrphanedInvocation ==
    Returned => pending_tool_calls \cap ResultIds(emitted) = {}

\* C4: a pair is yielded only for a call identifier that an assistant message of
\* this run carried, at most once per call identifier, and never after the
\* terminal value.
C4_PairsMatchRegisteredCalls ==
    /\ \A i \in PairPositions : events[i].id \in InvokedIds(emitted)
    /\ \A i, j \in PairPositions : events[i].id = events[j].id => i = j
    /\ \A i \in FinalPositions, j \in PairPositions : j < i

C4_Witness ==
    /\ pc = "done"
    /\ ~raised
    /\ restart_count >= 1
    /\ Cardinality(PairPositions) >= 3

\* C5: a run that does not fail yields exactly one terminal value, as the last
\* event of the stream; a run that fails yields no terminal value.
C5_OneTerminalValue ==
    /\ Returned => FinalPositions = {Len(events)} /\ Len(events) >= 1
    /\ raised => FinalPositions = {}
    /\ FinalPositions \subseteq {Len(events)}

C5_Witness ==
    /\ pc = "done"
    /\ ~raised
    /\ output_schema
    /\ events[Len(events)].value = StructuredResult
    /\ Cardinality(PairPositions) >= 1

\* C6: the restart counter never exceeds MAX_RESTARTS.
C6_RestartCountBounded == restart_count <= max_restarts

\* C7: a run never ends with its last executor stream cut short: whenever a
\* stream was interrupted after a tool result, a new executor stream was started
\* afterwards.
C7_NoRunEndsInterrupted == Returned => ~should_restart

\* C8: a run whose restarts are exhausted does not raise and ends by yielding
\* exactly one terminal value.
C8_ExhaustionIsNotAnError ==
    (RestartsExhausted(restart_count) /\ pc = "done")
        => /\ ~raised
           /\ FinalPositions = {Len(events)}
           /\ Len(events) >= 1

C8_Witness == RestartsExhausted(restart_count) /\ pc = "done"

\* C9: a started run always terminates, and it invokes the executor's stream at
\* most MAX_RESTARTS + 1 times, whatever the tool-set changes.
C9_TerminatesWithinFourInvocations ==
    /\ [](astream_calls <= max_restarts + 1)
    /\ InRun ~> (pc = "done")

C9_Witness == pc = "done" /\ astream_calls = max_restarts + 1 /\ ~raised

\* C10: accumulated_messages keeps the initial list (history restricted to human
\* and assistant messages, then the query) as a prefix and only grows during a
\* run; every executor invocation receives the initial list followed by all the
\* messages emitted before it, in emission order.
C10_NoMessageLostByRestart ==
    /\ [](InRun => /\ IsPrefix(initial_messages, accumulated_messages)
                   /\ initial_messages[Len(initial_messages)] = HumanMessage(Query)
                   /\ \A i \in 1..Len(initial_messages) :
                          initial_messages[i].type \in {"human", "ai"})
    /\ [][ /\ InRun => IsPrefix(accumulated_messages, accumulated_messages')
           /\ (InRun /\ astream_calls' = astream_calls + 1)
              => inputs' = initial_messages \o emitted
       ]_vars

C10_Witness ==
    /\ pc = "streaming"
    /\ restart_count >= 2
    /\ Len(initial_messages) >= 3
    /\ inputs = initial_messages \o emitted
    /\ Len(emitted) >= 4

\* the catalog changed during the current run
ChangedDuringRun == change_run = runs /\ change_at >= 0

\* the catalog changed between the previous call and the current one
ChangedBeforeRun == change_run = runs - 1 /\ change_at = -1

\* positions in emitted of the tool results delivered after the catalog changed
ResultsAfterChange ==
    {i \in (change_at + 1)..Len(emitted) : emitted[i].type = "tool"}

\* C11: in a run during which the tool set changed exactly once, between two
\* steps, there is at most one restart; if a tool result followed the change and
\* the run ended with a terminal value, there was exactly one restart (two
\* executor invocations), the loaded tools are the new tool set, the active
\* executor was built from them and from a system prompt generated from them,
\* and the executor invoked last received the initial list followed by every
\* message emitted up to the tool result that triggered the restart.
C11_SingleChangeSingleRestart ==
    /\ restart_count <= 1
    /\ ~ChangedDuringRun => restart_count = 0
    /\ (InRun /\ ChangedDuringRun /\ ResultsAfterChange = {}) => restart_count = 0
    /\ (Returned /\ ChangedDuringRun /\ ResultsAfterChange # {})
          => /\ restart_count = 1
             /\ astream_calls = 2
             /\ tools = catalog
             /\ system_message = [present |-> TRUE, tools |-> catalog, text |-> ""]
             /\ agent_executor =
                    [built |-> TRUE, tools |-> catalog, system_prompt |-> system_message,
                     run_limit |-> max_steps]
             /\ IsPrefix(inputs, initial_messages \o emitted)
             /\ \E k \in ResultsAfterChange :
                    /\ \A j \in ResultsAfterChange : k <= j
                    /\ Len(inputs) >= Len(initial_messages) + k

C11_Witness ==
    /\ pc = "done"
    /\ ~raised
    /\ ChangedDuringRun
    /\ change_at >= 2
    /\ restart_count = 1
    /\ Truthy(final_output)
    /\ Len(inputs) >= Len(initial_messages) + 4

\* C12: when a stream call starts while the catalog differs from the loaded
\* snapshot, the first executor invocation of the run is made with the tools,
\* the system prompt and the executor rebuilt from the catalog, and the restart
\* counter is still 0.
C12_PreRunRebuildIsNoRestart ==
    (pc = "streaming" /\ emitted = <<>> /\ ~ChangedDuringRun)
        => /\ tools = catalog
           /\ system_message = [present |-> TRUE, tools |-> catalog, text |-> ""]
           /\ agent_executor =
                  [built |-> TRUE, tools |-> catalog, system_prompt |-> system_message,
                     run_limit |-> max_steps]
           /\ restart_count = 0
           /\ astream_calls = 1
           /\ inputs = initial_messages

C12_Witness ==
    /\ pc = "streaming"
    /\ emitted = <<>>
    /\ ChangedBeforeRun
    /\ ~initialized_here
    /\ tools = catalog
    /\ restart_count = 0

\* the step in which the generator processes a tool-result message
ProcessesToolResult ==
    /\ pc = "messages"
    /\ chunk[idx].type = "tool"
    /\ (idx' # idx \/ pc' # pc)

\* C13: whenever an executor exists, the loaded snapshot is the tool set that
\* executor was built with (so in particular at every executor invocation and
\* at every comparison); at a tool result and at the start of a call the
\* snapshot is replaced exactly when its set of names differs from the
\* catalog's.
C13_SnapshotIsExecutorsToolSet ==
    /\ [](agent_executor.built => agent_executor.tools = tools)
    /\ [][ /\ (ProcessesToolResult /\ use_server_manager)
              => ((catalog # tools) <=> (should_restart' /\ tools' = catalog))
           /\ (ProcessesToolResult /\ catalog = tools)
              => UNCHANGED <<tools, agent_executor, system_message>>
           /\ (pc \in {"idle", "done"} /\ pc' = "streaming" /\ use_server_manager)
              => tools' = catalog
           /\ (pc \in {"idle", "done"} /\ pc' = "streaming" /\ initialized
                 /\ (~use_server_manager \/ catalog = tools))
              => UNCHANGED <<tools, agent_executor, system_message>>
         ]_vars

C13_Witness ==
    /\ pc = "streaming"
    /\ restart_count = 2
    /\ agent_executor.tools = tools
    /\ tools = ManagementTools
    /\ catalog # tools

\* the messages appended to accumulated_messages during the run
Appended ==
    SubSeq(accumulated_messages, Len(initial_messages) + 1, Len(accumulated_messages))

\* C14: during a run no message is appended to accumulated_messages twice, also
\* when an update of the executor repeats a message emitted earlier, before or
\* after a restart: the appended messages are pairwise different.
C14_NoMessageAppendedTwice ==
    InRun => \A i, j \in 1..Len(Appended) : Appended[i] = Appended[j] => i = j

C14_Witness ==
    /\ pc = "streaming"
    /\ reemits >= 1
    /\ restart_count >= 1
    /\ Len(emitted) > Len(Appended)
    /\ Len(Appended) >= 3

\* C15: the accumulation drops no new message because its content equals that
\* of a message accumulated before (an answer equal to an answer of the
\* history): when every update of the executor carries new messages, the
\* messages appended in the run are the messages emitted in the run.
C15_NoNewMessageDropped == InRun => Appended = emitted

\* positions of the assistant messages without tool invocations among the
\* messages the executor emitted in the run
FinalAIPositions == {i \in 1..Len(emitted) : IsFinalAI(emitted[i])}

LastFinalAI == emitted[CHOOSE i \in FinalAIPositions : \A j \in FinalAIPositions : j <= i]

\* the run has yielded its terminal value and no structured output was requested
PlainTerminal == pc = "final_yielded" /\ ~output_schema /\ FinalPositions # {}

TerminalValue == events[Len(events)].value

\* C16: without structured output the terminal value of stream is the text of
\* the last assistant message without tool invocations emitted in the run, and
\* the sentinel "No output generated" only if no such message was emitted.
C16_TerminalIsLastAnswerText ==
    PlainTerminal =>
        /\ FinalAIPositions # {} => TerminalValue = LastFinalAI.content
        /\ TerminalValue = NoOutputGenerated => FinalAIPositions = {}

\* C16 amended: the terminal value is the text of the last such message when
\* that text is not empty; it is the sentinel when no such message was emitted
\* or the text of the last one is empty.
C16_TerminalIsLastNonEmptyAnswerText ==
    PlainTerminal =>
        TerminalValue = IF FinalAIPositions # {} /\ LastFinalAI.content # ""
                        THEN LastFinalAI.content
                        ELSE NoOutputGenerated

C16_Witness ==
    /\ PlainTerminal
    /\ restart_count >= 1
    /\ FinalAIPositions # {}
    /\ TerminalValue = "a"

PlanPositions == {i \in 1..Len(events) : events[i].kind = "plan"}

\* the plan the latest call surfaced: printed by run, yielded first by stream
SurfacedPlan == IF method = "run" THEN printed[1] ELSE events[1].value

\* C17: a call made with reasoning=True generates the plan once and surfaces it
\* before any executor step: stream yields it as its first event and yields no
\* other plan; run prints it before the inner stream starts, and the inner
\* stream, called with reasoning disabled, neither generates nor yields a plan.
C17_PlanOnceAndFirst ==
    /\ plan_calls <= 1
    /\ ~reasoning => plan_calls = 0 /\ PlanPositions = {} /\ printed = <<>>
    /\ (reasoning /\ method = "stream") =>
          /\ events # <<>> => PlanPositions = {1}
          /\ astream_calls >= 1 => plan_calls = 1 /\ events # <<>>
          /\ printed = <<>>
    /\ (reasoning /\ method = "run") =>
          /\ PlanPositions = {}
          /\ (pc = "run_planned" \/ astream_calls >= 1) =>
                plan_calls = 1 /\ Len(printed) = 1 /\ printed[1].kind # "none"

C17_Witness ==
    /\ reasoning
    /\ method = "stream"
    /\ pc = "final_yielded"
    /\ Len(events) >= 3

\* C18: once a call made with reasoning=True has completed, get_reasoning_plan()
\* returns the plan generated for that call, until the next call; after a
\* completed call made with reasoning=False it returns None.
C18_PlanRetrievableAfterCall ==
    (pc = "done" /\ ~raised) =>
        get_reasoning_plan = IF reasoning THEN SurfacedPlan ELSE NoPlan

\* C19: when the model call made for the plan raises, the plan is the fallback
\* plan holding the query and the listing of the agent's tools, the failure
\* raises nothing, and the call goes on to invoke the executor.
C19_PlanFailureFallsBack ==
    plan_failed =>
        /\ SurfacedPlan = [kind |-> "fallback", query |-> Query, tool_info |-> AdapterTools]
        /\ pc \in {"plan_yielded", "run_planned"} => ~raised
        /\ pc \notin {"plan_yielded", "run_planned"} => astream_calls >= 1

C19_Witness ==
    /\ plan_failed
    /\ method = "run"
    /\ PlainTerminal
    /\ TerminalValue = "a"

\* C20: run returns the value that is the last event of stream, and raises
\* whenever stream, called with the same arguments in the same state, raises.
C20_RunReturnsStreamsLastEvent ==
    (method = "run" /\ pc = "done") =>
        /\ ~raised => result = events[Len(events)].value
        /\ stream_fails => raised

\* C21: the count of tools used that _consume_and_return computes for a run is
\* the number of tool invocations made during that run, in every run of a
\* session.
C21_StepsCountThisRunsInvocations ==
    (method = "run" /\ pc = "done" /\ ~raised) => ConsumeSteps = steps_taken

\* the conversation history the current call started from: the first messages
\* handed to the executor, without the query
HistoryBefore == SubSeq(initial_messages, 1, Len(initial_messages) - 1)

\* the call has returned without raising and no structured output was requested
ReturnedPlain == Returned /\ ~output_schema

StartsStream ==
    \/ pc \in {"idle", "done"} /\ runs' = runs + 1 /\ method' = "stream"
    \/ pc = "run_planned" /\ pc' # pc

C24_OneTelemetryRecordPerCall ==
    /\ (pc = "done" /\ raised /\ astream_calls >= 1) =>
          telemetry = <<[execution_method |-> method, success |-> FALSE]>>
    /\ (pc = "done" /\ ~raised) =>
          telemetry = <<[execution_method |-> method, success |-> TRUE]>>
    /\ pc \notin {"idle", "done"} => telemetry = <<>>

C24_Witness ==
    /\ method = "run"
    /\ pc = "done"
    /\ raised
    /\ astream_calls >= 1
    /\ steps_taken >= 1
    /\ Len(telemetry) = 1

\* C25: when a call of run or stream owns the connector lifecycle
\* (manage_connector) and the agent was initialized during that call, a failure
\* of the execution leaves the agent torn down (closed: no executor, not
\* initialized) by the time the error reaches the caller.
C25_FailureTearsDownOwnInitialization ==
    [][(pc # "done" /\ pc' = "done" /\ raised' /\ astream_calls >= 1
          /\ manage_connector /\ init_calls >= 1) =>
       (~initialized' /\ ~agent_executor'.built)]_vars

\* a field value that counts as absent: not set, None, an empty or blank string,
\* an empty list
AbsentValues ==
    {MissingValue, NoneValue, StrValue(""), StrValue(" "), ListValue(<<>>)}

\* a field declared without a default whose value in the formatted result is absent
RequiredFieldAbsent ==
    \E i \in 1..Len(schema_fields) :
       schema_fields[i] = "no_default" /\ structured_result[i] \in AbsentValues

\* C26: when structured output is requested and a field declared without a
\* default is missing, None, an empty or blank string or an empty list in the
\* formatted result, the coercion raises: the call never yields a structured
\* object and ends with the error.
C26_AbsentRequiredFieldRaises ==
    (output_schema /\ Truthy(final_output) /\ RequiredFieldAbsent) =>
       (pc # "final_yielded" /\ (pc = "done" => raised))

\* C27: when a structured-output target is requested, a call of stream that
\* does not raise ends with the object of the formatting pass as its terminal
\* value, never with a plain string in its place.
C27_SchemaEndsStructuredOrError ==
    (output_schema /\ pc = "final_yielded") =>
       (FinalPositions # {} /\ TerminalValue = StructuredResult)

\* the local requirements as stated: a model; a client or a connector; a client
\* in server-manager mode
LocalRequirementsMissing(args) ==
    \/ ~args.llm
    \/ ~args.client /\ args.connectors = 0
    \/ args.use_server_manager /\ ~args.client

IsValueError(outcome) == outcome \notin {"pending", "local", "remote"}

\* C28: constructing a local agent raises ValueError when no model is given,
\* when neither a client nor a connector is given, or when server-manager mode
\* is requested without a client; with an agent_id the agent is remote and
\* none of these is checked.
C28_ConstructorRejectsMissingInputs ==
    construction # "pending" =>
       /\ ctor_args.agent_id => construction = "remote"
       /\ (~ctor_args.agent_id /\ LocalRequirementsMissing(ctor_args)) =>
             IsValueError(construction)

\* the local requirements of the constructor: the client is required in
\* server-manager mode only when no server manager is supplied
LocalRequirementsMissingUnlessSupplied(args) ==
    \/ ~args.llm
    \/ ~args.client /\ args.connectors = 0
    \/ args.use_server_manager /\ ~args.client /\ ~args.server_manager

\* C28 (amended): constructing a local agent raises ValueError exactly when no
\* model is given, when neither a client nor a connector is given, or when
\* server-manager mode is requested with neither a client nor a server manager
\* supplied; with an agent_id the agent is remote and none of these is checked.
C28_ConstructorRejectsMissingInputsUnlessManagerSupplied ==
    construction # "pending" =>
       /\ ctor_args.agent_id => construction = "remote"
       /\ ~ctor_args.agent_id =>
             (IsValueError(construction) <=>
                LocalRequirementsMissingUnlessSupplied(ctor_args))

C28_Witness ==
    /\ construction = "ValueError: Either client or connector must be provided"
    /\ ctor_args.llm
    /\ ~ctor_args.agent_id

\* the values of the events yielded so far
YieldedValues == [i \in 1..Len(events) |-> events[i].value]

\* nothing of the local execution has happened on the agent
NoLocalActivity ==
    /\ ~initialized
    /\ ~agent_executor.built
    /\ init_calls = 0
    /\ astream_calls = 0
    /\ plan_calls = 0
    /\ reasoning_plan = NoPlan
    /\ conversation_history = <<>>
    /\ telemetry = <<>>

\* C29: in remote mode run returns exactly the remote agent's result and stream
\* yields exactly the remote agent's items in the same order, each with a
\* single delegation call, and no local initialization, executor invocation,
\* plan generation or history update takes place.
C29_RemoteModeDelegates ==
    construction = "remote" =>
       /\ NoLocalActivity
       /\ runs >= 1 => remote_calls = 1
       /\ pc = "remote" => IsPrefix(YieldedValues, remote_items)
       /\ (pc = "done" /\ ~raised /\ method = "stream") => YieldedValues = remote_items
       /\ (pc = "done" /\ ~raised /\ method = "run") => result = remote_items[1]

C29_Witness ==
    /\ construction = "remote"
    /\ pc = "done"
    /\ ~raised
    /\ method = "stream"
    /\ reasoning
    /\ Len(events) = 2
    /\ events[1].value # events[2].value

\* C30: a stream called with manage_connector true on an agent that is not
\* initialized calls initialize exactly once, in the step that precedes every
\* executor invocation and every event of the call; a stream called on an
\* initialized agent never calls initialize; the count does not change later
\* in the call.
C30_StreamInitializesOnceBeforeExecution ==
    [][/\ (pc \in {"idle", "done"} /\ runs' = runs + 1 /\ method' = "stream") =>
            /\ (manage_connector' /\ ~initialized) => init_calls' = 1
            /\ initialized => init_calls' = 0
       /\ (pc \notin {"idle", "done"} /\ method = "stream") =>
            /\ init_calls' = init_calls
            /\ (events # <<>> \/ astream_calls >= 1) =>
                  init_calls = (IF initialized_here THEN 1 ELSE 0)]_vars

C30_Witness ==
    /\ method = "stream"
    /\ manage_connector
    /\ reasoning
    /\ init_calls = 1
    /\ initialized_here
    /\ pc = "streaming"
    /\ astream_calls >= 1
    /\ steps_taken >= 1

IsHumanOrAssistant(m) == m.type \in {"human", "ai"}

\* C31: the message list given to the executor is the human and assistant
\* messages of the external history, in order, followed by the new query, the
\* internal history not being part of it; without an external history the
\* internal conversation history is used in the same way.
C31_InputIsChosenHistoryThenQuery ==
    (pc = "streaming" /\ method = "stream") =>
       /\ initial_messages =
             SelectSeq(IF external_history.given THEN external_history.messages
                       ELSE conversation_history, IsHumanOrAssistant)
             \o <<HumanMessage(Query)>>
       /\ astream_calls = 1 => inputs = initial_messages

C31_Witness ==
    /\ pc = "streaming"
    /\ astream_calls = 1
    /\ external_history.given
    /\ Len(external_history.messages) = 2
    /\ external_history.messages[1].type = "tool"
    /\ conversation_history # <<>>
    /\ Len(inputs) = 2

\* C35: the initial message list handed to the executor satisfies the pairing
\* rule: every tool invocation of an assistant message kept in it has its
\* tool-result message in it.
C35_InitialInputIsPaired ==
    (pc = "streaming" /\ astream_calls = 1) =>
       InvokedIds(inputs) \subseteq ResultIds(inputs)

\* C37: during one call of stream, close is called at most once, on the
\* success path as well as on the failure path.
C37_TeardownAtMostOncePerCall == close_calls <= 1

C33_PlanListsToolsOfFirstInvocation ==
    [][(pc = "plan_yielded" /\ pc' = "streaming" /\ reasoning_plan.kind = "fallback") =>
         reasoning_plan.tool_info = agent_executor'.tools]_vars

\* C34: a max_steps value passed to the call is the maximum number of steps
\* (model calls) the executor takes in that call.
C34_PerCallStepLimitIsEnforced ==
    (InRun /\ max_steps_arg # NoMaxSteps) => model_calls <= max_steps_arg

\* C36: a call of stream that raises, at whatever stage, leaves the
\* conversation history exactly as it was before the call.
C36_FailedCallLeavesHistoryUnchanged ==
    [][(pc \notin {"idle", "done"} /\ pc' = "done" /\ raised') =>
         conversation_history' = conversation_history]_vars

\* C38: for a connectors-only agent that is uninitialized before the call (so
\* that the call initializes it) and run with manage_connector true, the agent
\* is closed when run returns, with reasoning=True as with reasoning=False.
C38_RunLeavesAgentClosedWhateverReasoning ==
    [][(pc = "final_yielded" /\ pc' = "done" /\ method = "run" /\ manage_connector
          /\ ~client /\ init_calls >= 1) =>
         (~initialized' /\ ~agent_executor'.built)]_vars

\* C39: after set_system_message on an initialized agent the active executor
\* is one built with the new system message, for every tool set including the
\* empty one: when a run starts, the executor's system prompt is
\* get_system_message().
C39_ExecutorHasTheSystemMessageSet ==
    (initialized /\ agent_executor.built) => agent_executor.system_prompt = system_message

====
